---------------------------- MODULE Spec2Model ----------------------------
(***************************************************************************)
(* A model of BusService (src/src/services/bus.service.ts): the GTFS feed  *)
(* loader that fills the in-memory indices, and the journey planner        *)
(* findRoutes with its direct and one-transfer searches.                   *)
(*                                                                         *)
(* Representation.                                                         *)
(*  - A JS Map or Set whose iteration order is observable is a sequence    *)
(*    in insertion order (stops, routesByStop[stop]); a Map that is only   *)
(*    looked up by key is a function (trips, routes, the stop-time         *)
(*    indices, stopsByRoute).                                              *)
(*  - A time string "HH:MM:SS" is the tuple <<h, m, s>>; a stop-time row   *)
(*    whose time column is absent holds <<>> (the field is undefined).     *)
(*    Every time string of a feed is well formed; strings that Number()    *)
(*    turns into NaN are not part of the feeds modelled.                   *)
(*  - A duration string such as "14 mins" is a sequence of characters, so  *)
(*    that formatting and parseInt are real conversions.                   *)
(*  - Coordinates lie on the equator; a position is a longitude in units   *)
(*    of 0.01 degree.                                                      *)
(***************************************************************************)
EXTENDS Integers, Sequences, FiniteSets, TLC

VARIABLES
    files,              \* the GTFS directory on disk (input, never written)
    pc,                 \* position of the constructor: "new", "loading", "constructed"
    stops,              \* Map stop_id -> Stop, as a sequence in insertion order
    trips,              \* Map trip_id -> Trip
    routes,             \* Map route_id -> Route
    stopTimesByStopId,  \* Map stop_id -> StopTime[]
    stopTimesByTripId,  \* Map trip_id -> StopTime[]
    routesByStop,       \* Map stop_id -> Set<route_id>, each set in insertion order
    stopsByRoute,       \* Map route_id -> stop_id[]
    isLoaded,           \* the isLoaded flag
    escaped,            \* TRUE when an exception left the constructor
    lastCall,           \* the last findRoutes call: <<>> or <<pickup, drop>>
    lastOutcome,        \* "none", "returned" or "threw"
    lastResult,         \* the list the last call returned
    logged,             \* the counts the last call logged at lines 218 and 226
    lastNearby,         \* the nearby stops the last call searched from (lines 203-204)
    firstCall,          \* the first findRoutes call made (when calls are observed)
    firstResult,        \* its outcome and the list it returned
    otherCalls          \* TRUE once a call with other arguments followed it

indices == <<stops, trips, routes, stopTimesByStopId, stopTimesByTripId,
             routesByStop, stopsByRoute>>

vars == <<files, pc, stops, trips, routes, stopTimesByStopId, stopTimesByTripId,
          routesByStop, stopsByRoute, isLoaded, escaped,
          lastCall, lastOutcome, lastResult, logged, lastNearby,
          firstCall, firstResult, otherCalls>>

(***************************************************************************)
(* Bounds of the model.                                                    *)
(***************************************************************************)
\* Query coordinates are the positions 0 .. MaxPos.
MaxPos == 3
\* The second trip of a generated feed starts 0 .. MaxShift steps after the first.
MaxShift == 1

(***************************************************************************)
(* Program constants.                                                      *)
(***************************************************************************)
NearbyLimit == 20
MaxDistanceM == 2000
WalkSpeed == 80
MaxResults == 5
TopStops == 5
FareBase == 5
\* Twice the 1.5 charged per stop: fares are computed doubled, in integers.
TwiceFarePerStop == 3
BusStopM == 500

(***************************************************************************)
(* Generic sequence helpers.                                               *)
(***************************************************************************)
EmptyMap == [x \in {} |-> <<>>]

Range(s) == {s[i] : i \in DOMAIN s}

Take(s, n) == SubSeq(s, 1, IF n < Len(s) THEN n ELSE Len(s))

Reverse(s) == [i \in 1..Len(s) |-> s[Len(s) + 1 - i]]

RECURSIVE Concat(_)
Concat(ss) == IF ss = <<>> THEN <<>> ELSE Head(ss) \o Concat(Tail(ss))

\* Array.prototype.indexOf: the first index (0-based) holding x, or -1.
RECURSIVE IndexFrom(_, _, _)
IndexFrom(s, x, i) ==
    IF i > Len(s) THEN -1
    ELSE IF s[i] = x THEN i - 1
    ELSE IndexFrom(s, x, i + 1)

indexOf(s, x) == IndexFrom(s, x, 1)

\* Array.prototype.sort with comparator (a, b) => a.k - b.k on a sequence of
\* records [k, v]: a stable sort (insertion from the left keeps equal keys in order).
RECURSIVE InsertByKey(_, _)
InsertByKey(sorted, x) ==
    IF sorted = <<>> THEN <<x>>
    ELSE IF sorted[Len(sorted)].k <= x.k THEN Append(sorted, x)
    ELSE Append(InsertByKey(SubSeq(sorted, 1, Len(sorted) - 1), x),
                sorted[Len(sorted)])

RECURSIVE SortFrom(_, _, _)
SortFrom(s, i, acc) ==
    IF i > Len(s) THEN acc
    ELSE SortFrom(s, i + 1, InsertByKey(acc, s[i]))

StableSort(s) == SortFrom(s, 1, <<>>)

\* The values of a sorted sequence of records [k, v].
Values(keyed) == [i \in DOMAIN keyed |-> keyed[i].v]

\* The greatest element of a non-empty set of indices.
LastOf(S) == CHOOSE i \in S : \A j \in S : j <= i

(***************************************************************************)
(* Strings of digits: the numbers of the CSV files and of the output.      *)
(***************************************************************************)
Digit == <<"0", "1", "2", "3", "4", "5", "6", "7", "8", "9">>

\* String(n) of an integer, as a sequence of characters.
RECURSIVE DigitsOf(_)
DigitsOf(n) == IF n < 10 THEN <<Digit[n + 1]>>
               ELSE Append(DigitsOf(n \div 10), Digit[(n % 10) + 1])

NumberToString(n) == IF n < 0 THEN <<"-">> \o DigitsOf(-n) ELSE DigitsOf(n)

\* The template `${n} mins`.
MinsString(n) == NumberToString(n) \o <<" ", "m", "i", "n", "s">>

DigitValue(c) == CHOOSE d \in 0..9 : Digit[d + 1] = c

\* The digits of radix 16 after "9", in both cases.
HexLower == <<"a", "b", "c", "d", "e", "f">>
HexUpper == <<"A", "B", "C", "D", "E", "F">>

\* The value of c as a digit of the radix, -1 when it is none.
DigitIn(c, radix) ==
    IF c \in Range(Digit) THEN DigitValue(c)
    ELSE IF radix = 16 /\ c \in Range(HexLower)
    THEN 9 + (CHOOSE d \in 1..6 : HexLower[d] = c)
    ELSE IF radix = 16 /\ c \in Range(HexUpper)
    THEN 9 + (CHOOSE d \in 1..6 : HexUpper[d] = c)
    ELSE -1

\* The digits of str from position i up to the first character that is none.
RECURSIVE ParseDigits(_, _, _, _)
ParseDigits(str, i, radix, acc) ==
    IF i > Len(str) \/ DigitIn(str[i], radix) = -1 THEN acc
    ELSE ParseDigits(str, i + 1, radix, acc * radix + DigitIn(str[i], radix))

\* StrWhiteSpaceChar, the characters parseInt skips before the number: TAB, LF, VT
\* (U+000B), FF, CR, space, NBSP (U+00A0), U+1680 and U+FEFF.  Its other members
\* (U+2000 to U+200A, U+2028, U+2029, U+202F, U+205F, U+3000) cannot occur in a
\* string of this module, so no string here holds them.
WhiteSpace == {"\t", "\n", "", "\f", "\r", " ", " ", " ", "﻿"}

\* The first position of str at or after i that holds no white space.
RECURSIVE SkipWhiteSpace(_, _)
SkipWhiteSpace(str, i) ==
    IF i <= Len(str) /\ str[i] \in WhiteSpace THEN SkipWhiteSpace(str, i + 1) ELSE i

\* The digits of str from position i: radix 16 after a prefix "0x" or "0X", radix 10
\* otherwise.
ParseUnsigned(str, i) ==
    IF i + 1 <= Len(str) /\ str[i] = "0" /\ str[i + 1] \in {"x", "X"}
    THEN ParseDigits(str, i + 2, 16, 0)
    ELSE ParseDigits(str, i, 10, 0)

\* The number of str from position i: an optional sign "+" or "-", then the digits.
ParseSigned(str, i) ==
    IF i <= Len(str) /\ str[i] = "-" THEN -ParseUnsigned(str, i + 1)
    ELSE IF i <= Len(str) /\ str[i] = "+" THEN ParseUnsigned(str, i + 1)
    ELSE ParseUnsigned(str, i)

\* parseInt(str) with no radix argument: leading white space skipped, an optional
\* sign, an optional prefix 0x, then digits up to the first other character.
\* (Every string it is given here starts with an integer, so NaN does not arise.)
parseInt(str) == ParseSigned(str, SkipWhiteSpace(str, 1))

(***************************************************************************)
(* The GTFS files.  A file is [status, rows]: status "ok" (readable, parses)*)
(* , "missing" (existsSync is false) or "corrupt" (readFileSync or parse   *)
(* throws).  Rows are what csv-parse yields with columns: true.            *)
(***************************************************************************)
NoTime == <<>>

\* "HH:MM:SS" of a number of seconds since midnight; the hour may exceed 23.
HMS(sec) == <<sec \div 3600, (sec % 3600) \div 60, sec % 60>>

(***************************************************************************)
(* loadData, lines 82-194.                                                 *)
(***************************************************************************)
\* this.stops.set(s.stop_id, {...}): a Map keeps a key's first position.
RECURSIVE SetStops(_, _, _)
SetStops(rows, i, acc) ==
    IF i > Len(rows) THEN acc
    ELSE LET r == rows[i]
             at == {j \in DOMAIN acc : acc[j].stop_id = r.stop_id}
         IN  SetStops(rows, i + 1,
                 IF at = {} THEN Append(acc, r)
                 ELSE [j \in DOMAIN acc |-> IF j \in at THEN r ELSE acc[j]])

\* this.trips.set / this.routes.set: the last row of a key wins.
SetTrips(rows) ==
    [id \in {rows[i].trip_id : i \in DOMAIN rows} |->
        rows[LastOf({i \in DOMAIN rows : rows[i].trip_id = id})]]

SetRoutes(rows) ==
    [id \in {rows[i].route_id : i \in DOMAIN rows} |->
        rows[LastOf({i \in DOMAIN rows : rows[i].route_id = id})]]

\* routeSampleTrip: the first trips row of each route.
routeSampleTrip(tripRows) ==
    [rId \in {tripRows[i].route_id : i \in DOMAIN tripRows} |->
        tripRows[CHOOSE i \in DOMAIN tripRows :
                    /\ tripRows[i].route_id = rId
                    /\ \A j \in DOMAIN tripRows :
                          tripRows[j].route_id = rId => i <= j].trip_id]

\* const st: StopTime = {...s, stop_sequence: parseInt(s.stop_sequence)}, lines
\* 142-145, for every row of stop_times.csv.
StopTimesOf(rows) ==
    [i \in DOMAIN rows |-> [rows[i] EXCEPT !.stop_sequence = parseInt(@)]]

\* Index by Stop ID, lines 148-151: file order.
IndexByStop(stRows) ==
    [sId \in {stRows[i].stop_id : i \in DOMAIN stRows} |->
        SelectSeq(stRows, LAMBDA r : r.stop_id = sId)]

\* Index by Trip ID, lines 154-157: file order.
IndexByTrip(stRows) ==
    [tId \in {stRows[i].trip_id : i \in DOMAIN stRows} |->
        SelectSeq(stRows, LAMBDA r : r.trip_id = tId)]

\* Build RoutesByStop, lines 160-166: a Set per stop, in insertion order.
RECURSIVE AddRoutesByStop(_, _, _, _)
AddRoutesByStop(stRows, tripMap, i, acc) ==
    IF i > Len(stRows) THEN acc
    ELSE LET st == stRows[i]
         IN  IF st.trip_id \notin DOMAIN tripMap
             THEN AddRoutesByStop(stRows, tripMap, i + 1, acc)
             ELSE LET rId == tripMap[st.trip_id].route_id
                      old == IF st.stop_id \in DOMAIN acc THEN acc[st.stop_id] ELSE <<>>
                      new == IF rId \in Range(old) THEN old ELSE Append(old, rId)
                  IN  AddRoutesByStop(stRows, tripMap, i + 1,
                          [s \in DOMAIN acc \cup {st.stop_id} |->
                              IF s = st.stop_id THEN new ELSE acc[s]])

\* tripStops.sort((a, b) => a.stop_sequence - b.stop_sequence), line 181.
SortBySequence(tripStops) ==
    Values(StableSort([i \in DOMAIN tripStops |->
                          [k |-> tripStops[i].stop_sequence, v |-> tripStops[i]]]))

\* What the sort of line 181 leaves in stopTimesByTripId: Array.prototype.sort
\* sorts in place, so the sample trips' lists stay sorted in the index.
SortedSampleTrips(byTrip, sample) ==
    [tId \in DOMAIN byTrip |->
        IF tId \in Range(sample) THEN SortBySequence(byTrip[tId]) ELSE byTrip[tId]]

\* tripStops.map(ts => ts.stop_id), line 182.
StopIdsOf(tripStops) == [i \in DOMAIN tripStops |-> tripStops[i].stop_id]

\* Build StopsByRoute from sample trips, lines 177-185.
BuildStopsByRoute(byTrip, sample) ==
    [rId \in {r \in DOMAIN sample : sample[r] \in DOMAIN byTrip} |->
        StopIdsOf(SortBySequence(byTrip[sample[rId]]))]

\* The fields loadData has written when it returns, and whether it reached
\* "this.isLoaded = true".  A throw inside the try block is caught at line 191.
Engine(st, tr, ro, byStop, byTrip, rbs, sbr, loaded) ==
    [stops |-> st, trips |-> tr, routes |-> ro,
     stopTimesByStopId |-> byStop, stopTimesByTripId |-> byTrip,
     routesByStop |-> rbs, stopsByRoute |-> sbr, isLoaded |-> loaded,
     \* no exception leaves loadData: its whole body is inside try/catch
     escaped |-> FALSE]

\* A mutant of loadData: "this.isLoaded = true" placed before the stop_times file
\* is read, so a failure of that read leaves the engine marked loaded.
loadDataLoadedEarly(f) ==
    LET none == EmptyMap
        st == SetStops(f.stops.rows, 1, <<>>)
        tr == SetTrips(f.trips.rows)
        ro == SetRoutes(f.routes.rows)
        sample == routeSampleTrip(f.trips.rows)
        byStop == IndexByStop(StopTimesOf(f.stop_times.rows))
        byTrip == IndexByTrip(StopTimesOf(f.stop_times.rows))
        rbs == AddRoutesByStop(StopTimesOf(f.stop_times.rows), tr, 1, none)
    IN  IF \/ f.stops.status = "missing"
           \/ f.stop_times.status = "missing"
           \/ f.trips.status = "missing"
        THEN Engine(<<>>, none, none, none, none, none, none, FALSE)
        ELSE IF f.stops.status # "ok"
        THEN Engine(<<>>, none, none, none, none, none, none, FALSE)
        ELSE IF f.trips.status # "ok"
        THEN Engine(st, none, none, none, none, none, none, FALSE)
        ELSE IF f.routes.status # "ok"
        THEN Engine(st, tr, none, none, none, none, none, FALSE)
        ELSE IF f.stop_times.status # "ok"
        THEN Engine(st, tr, ro, none, none, none, none, TRUE)
        ELSE Engine(st, tr, ro, byStop, SortedSampleTrips(byTrip, sample), rbs,
                    BuildStopsByRoute(byTrip, sample), TRUE)

loadData(f) ==
    LET none == EmptyMap
        st == SetStops(f.stops.rows, 1, <<>>)
        tr == SetTrips(f.trips.rows)
        ro == SetRoutes(f.routes.rows)
        sample == routeSampleTrip(f.trips.rows)
        byStop == IndexByStop(StopTimesOf(f.stop_times.rows))
        byTrip == IndexByTrip(StopTimesOf(f.stop_times.rows))
        rbs == AddRoutesByStop(StopTimesOf(f.stop_times.rows), tr, 1, none)
    IN  IF \/ f.stops.status = "missing"
           \/ f.stop_times.status = "missing"
           \/ f.trips.status = "missing"
        THEN Engine(<<>>, none, none, none, none, none, none, FALSE)   \* line 93
        ELSE IF f.stops.status # "ok"                                  \* line 106 throws
        THEN Engine(<<>>, none, none, none, none, none, none, FALSE)
        ELSE IF f.trips.status # "ok"                                  \* line 116 throws
        THEN Engine(st, none, none, none, none, none, none, FALSE)
        ELSE IF f.routes.status # "ok"                                 \* line 122 throws
        THEN Engine(st, tr, none, none, none, none, none, FALSE)
        ELSE IF f.stop_times.status # "ok"                             \* line 129 throws
        THEN Engine(st, tr, ro, none, none, none, none, FALSE)
        ELSE Engine(st, tr, ro, byStop, SortedSampleTrips(byTrip, sample), rbs,
                    BuildStopsByRoute(byTrip, sample), TRUE)

(***************************************************************************)
(* Geo utility and small conversions.                                      *)
(***************************************************************************)
\* Great-circle metres of 0.01 degree of longitude on the equator (R = 6371 km).
MetresPerStep == 1112

Abs(x) == IF x < 0 THEN -x ELSE x

\* calculateDistance between two positions on the equator, in metres.
calculateDistance(posA, posB) == MetresPerStep * Abs(posA - posB)

\* Math.ceil((km * 1000) / 80), lines 531, 534, 626, 629.
WalkTimeMins(metres) == (metres + WalkSpeed - 1) \div WalkSpeed

\* toSeconds / parseTime, lines 515-518 and 749-752, of a present time string.
parseTime(t) == t[1] * 3600 + t[2] * 60 + t[3]

\* timeStr.split(':') of an undefined field raises a TypeError.
TimeThrows(t) == t = NoTime

\* calculateDurationInMinutes, lines 748-755: Math.floor(diff / 60).
calculateDurationInMinutes(start, end) == (parseTime(end) - parseTime(start)) \div 60

\* The least element of a set of indices, 0 when there is none (find / findIndex).
FirstOf(S) == IF S = {} THEN 0 ELSE CHOOSE i \in S : \A j \in S : i <= j

(***************************************************************************)
(* findNearbyStopsWithDistance, lines 735-746.                             *)
(***************************************************************************)
NearbyItem(stop, location) ==
    [stop |-> stop, distance |-> calculateDistance(location, stop.pos)]

\* .sort((a, b) => a.distance - b.distance), line 744.
SortByDistance(items) ==
    Values(StableSort([i \in DOMAIN items |-> [k |-> items[i].distance, v |-> items[i]]]))

findNearbyStopsWithDistance(location) ==
    Take(SortByDistance(
             SelectSeq([i \in DOMAIN stops |-> NearbyItem(stops[i], location)],
                       LAMBDA it : it.distance <= MaxDistanceM)),
         NearbyLimit)

\* this.stops.get(id)
HasStop(id) == \E i \in DOMAIN stops : stops[i].stop_id = id
GetStop(id) == stops[CHOOSE i \in DOMAIN stops : stops[i].stop_id = id]

(***************************************************************************)
(* extractRouteStops, lines 718-733.                                       *)
(***************************************************************************)
\* The object of lines 724-730 for the stop-time st of the stop s.
StopInfo(s, st) ==
    [name |-> s.stop_name, pos |-> s.pos, sequence |-> st.stop_sequence,
     time |-> st.arrival_time]

extractRouteStops(tripStopTimes, startSeq, endSeq) ==
    LET inRange(st) == st.stop_sequence >= startSeq /\ st.stop_sequence <= endSeq
        known(st) == HasStop(st.stop_id)
        project(list) == [i \in DOMAIN list |-> StopInfo(GetStop(list[i].stop_id), list[i])]
    IN  project(SelectSeq(SortBySequence(SelectSeq(tripStopTimes, inRange)), known))

\* A mutant of the list extractRouteStops leaves in the index: sorting the trip's
\* own array instead of the filtered copy.
TripListAfterExtractInPlace(tripStopTimes) == SortBySequence(tripStopTimes)

\* What extractRouteStops leaves in stopTimesByTripId for the trip it was given:
\* filter() returns a fresh array, so the sort of line 721 does not touch the index.
TripListAfterExtract(tripStopTimes) == tripStopTimes

(***************************************************************************)
(* Itinerary Assembler: buildRouteResult, lines 520-601.                   *)
(* route_name is a sequence of the strings concatenated; the instruction,  *)
(* color and path fields of the output are left out.                       *)
(***************************************************************************)
WalkSegment(fromName, fromPos, toName, toPos, metres, mins) ==
    [type |-> "walk", from |-> fromName, fromPos |-> fromPos,
     to |-> toName, toPos |-> toPos, distance |-> metres,
     duration |-> MinsString(mins), stops |-> <<>>]

BusSegment(fromStop, toStop, legStops, mins) ==
    [type |-> "bus", from |-> fromStop.stop_name, fromPos |-> fromStop.pos,
     to |-> toStop.stop_name, toPos |-> toStop.pos,
     distance |-> Len(legStops) * BusStopM,
     duration |-> MinsString(mins), stops |-> legStops]

\* Math.ceil of a number given doubled (so that 1.5 per stop stays an integer).
CeilOfHalves(x2) == (x2 + 1) \div 2

\* fare of a direct itinerary: Math.ceil(5 + routeStops.length * 1.5), lines 578, 596.
DirectFare(n) == CeilOfHalves(2 * FareBase + n * TwiceFarePerStop)

\* totalDuration of line 577.
DirectTotalDuration(walk1, bus, walk2) == walk1 + bus + walk2

\* buildRouteResult raises when a time it parses is undefined (line 528).
buildRouteResultThrows(pSt, dSt) ==
    TimeThrows(pSt.departure_time) \/ TimeThrows(dSt.arrival_time)

\* Lines 538-600, given the locals computed at lines 528-536.
AssembleDirect(pickup, drop, pStopItem, dStopItem, pSt, dSt, routeName, routeStops, busDurationMins, walk1TimeMins, walk2TimeMins) ==
    [route_name |-> <<routeName>>,
     start_stop |-> pStopItem.stop.stop_name,
     end_stop |-> dStopItem.stop.stop_name,
     departure_time |-> pSt.departure_time,
     arrival_time |-> dSt.arrival_time,
     duration |-> MinsString(DirectTotalDuration(walk1TimeMins, busDurationMins,
                                                 walk2TimeMins)),
     stops_count |-> Len(routeStops),
     fare |-> DirectFare(Len(routeStops)),
     segments |->
         << WalkSegment("Your Location", pickup, pStopItem.stop.stop_name,
                        pStopItem.stop.pos, pStopItem.distance, walk1TimeMins),
            BusSegment(pStopItem.stop, dStopItem.stop, routeStops, busDurationMins),
            WalkSegment(dStopItem.stop.stop_name, dStopItem.stop.pos, "Destination",
                        drop, dStopItem.distance, walk2TimeMins) >>,
     total_distance |-> pStopItem.distance + dStopItem.distance
                        + Len(routeStops) * BusStopM,
     \* not part of the output: the stop-times each bus leg was built from
     legs |-> << [start |-> pSt, end |-> dSt] >>]

buildRouteResult(pickup, drop, pStopItem, dStopItem, pSt, dSt, tripStopTimes, routeName) ==
    AssembleDirect(pickup, drop, pStopItem, dStopItem, pSt, dSt, routeName,
        extractRouteStops(tripStopTimes, pSt.stop_sequence, dSt.stop_sequence),
        calculateDurationInMinutes(pSt.departure_time, dSt.arrival_time),
        WalkTimeMins(pStopItem.distance),
        WalkTimeMins(dStopItem.distance))

(***************************************************************************)
(* buildTransferRouteResult, lines 603-716.                                *)
(***************************************************************************)
\* A mutant of TransferFare: the ceiling taken per leg.
TransferFarePerLeg(n1, n2) ==
    CeilOfHalves(2 * FareBase + n1 * TwiceFarePerStop) + CeilOfHalves(2 * FareBase + n2 * TwiceFarePerStop)

\* Math.ceil(5 + leg1 * 1.5 + 5 + leg2 * 1.5), lines 696, 711.
TransferFare(n1, n2) ==
    CeilOfHalves(2 * FareBase + n1 * TwiceFarePerStop + 2 * FareBase + n2 * TwiceFarePerStop)

\* A mutant of TransferTotalDuration: the transfer wait left out of the total.
TransferTotalDurationNoWait(walk1, dur1, wait, dur2, walk2) ==
    walk1 + dur1 + dur2 + walk2

\* totalDuration of line 695.
TransferTotalDuration(walk1, dur1, wait, dur2, walk2) ==
    walk1 + dur1 + wait + dur2 + walk2

\* route.route_short_name || route.route_long_name
RouteName(route) ==
    IF route.route_short_name # "" THEN route.route_short_name
    ELSE route.route_long_name

buildTransferRouteResultThrows(pSt, tSt1, tSt2, dSt) ==
    \/ TimeThrows(pSt.departure_time) \/ TimeThrows(tSt1.arrival_time)
    \/ TimeThrows(tSt2.departure_time) \/ TimeThrows(dSt.arrival_time)

\* A mutant of TransferSegments: the wait at the transfer stop pushed as a segment
\* of type 'bus'.
TransferSegmentsAsBus(transferStop, transferWait) ==
    << [WalkSegment(transferStop.stop_name, transferStop.pos,
                    transferStop.stop_name, transferStop.pos, 0, transferWait)
           EXCEPT !.type = "bus"] >>

\* "Transfer (Walk/Wait)", lines 657-667: one segment of type 'walk' from the
\* transfer stop to itself, distance `0m`, lasting the transfer wait.
TransferSegments(transferStop, transferWait) ==
    << WalkSegment(transferStop.stop_name, transferStop.pos,
                   transferStop.stop_name, transferStop.pos, 0, transferWait) >>

\* Lines 631-715, given the locals computed at lines 615-629; leg1 and leg2 are
\* [start, end, stops, dur] of the two bus legs.
AssembleTransfer(pickup, drop, pStopItem, dStopItem, names, leg1, leg2, transferWait, walk1Time, walk2Time, transferStop) ==
    [route_name |-> <<names[1], " + ", names[2]>>,
     start_stop |-> pStopItem.stop.stop_name,
     end_stop |-> dStopItem.stop.stop_name,
     departure_time |-> leg1.start.departure_time,
     arrival_time |-> leg2.end.arrival_time,
     duration |-> MinsString(TransferTotalDuration(walk1Time, leg1.dur, transferWait,
                                                   leg2.dur, walk2Time)),
     stops_count |-> Len(leg1.stops) + Len(leg2.stops),
     fare |-> TransferFare(Len(leg1.stops), Len(leg2.stops)),
     segments |->
         << WalkSegment("Your Location", pickup, pStopItem.stop.stop_name,
                        pStopItem.stop.pos, pStopItem.distance, walk1Time),
            BusSegment(pStopItem.stop, transferStop, leg1.stops, leg1.dur) >>
         \o TransferSegments(transferStop, transferWait)
         \o << BusSegment(transferStop, dStopItem.stop, leg2.stops, leg2.dur),
               WalkSegment(dStopItem.stop.stop_name, dStopItem.stop.pos, "Destination",
                           drop, dStopItem.distance, walk2Time) >>,
     total_distance |-> pStopItem.distance + dStopItem.distance
                        + (Len(leg1.stops) + Len(leg2.stops)) * BusStopM,
     \* not part of the output: the stop-times each bus leg was built from
     legs |-> << [start |-> leg1.start, end |-> leg1.end],
                 [start |-> leg2.start, end |-> leg2.end] >>]

\* leg1Stops / dur1 (lines 618, 621) and leg2Stops / dur2 (lines 619, 623).
BusLeg(startSt, endSt, tripStops) ==
    [start |-> startSt, end |-> endSt,
     stops |-> extractRouteStops(tripStops, startSt.stop_sequence, endSt.stop_sequence),
     dur |-> calculateDurationInMinutes(startSt.departure_time, endSt.arrival_time)]

buildTransferRouteResult(pickup, drop, pStopItem, dStopItem, route1, route2, trip1Info, trip2Info, transferStop) ==
    AssembleTransfer(pickup, drop, pStopItem, dStopItem,
        <<RouteName(route1), RouteName(route2)>>,
        BusLeg(trip1Info.start, trip1Info.end, trip1Info.stops),
        BusLeg(trip2Info.start, trip2Info.end, trip2Info.stops),
        calculateDurationInMinutes(trip1Info.end.arrival_time,
                                   trip2Info.start.departure_time),
        WalkTimeMins(pStopItem.distance),
        WalkTimeMins(dStopItem.distance),
        transferStop)

(***************************************************************************)
(* Search results are accumulated in a record: results (the list pushed so *)
(* far), seen (the seenRoutes set), threw (an exception was raised, which  *)
(* ends the call), and extracted (the trips whose stop-time lists were     *)
(* handed to extractRouteStops).                                           *)
(***************************************************************************)
EmptyAcc == [results |-> <<>>, seen |-> {}, threw |-> FALSE, extracted |-> {}]

Pushed(acc, itinerary, uniqueKey, tripIds) ==
    [results |-> Append(acc.results, itinerary),
     seen |-> acc.seen \cup {uniqueKey},
     threw |-> FALSE,
     extracted |-> acc.extracted \cup tripIds]

Thrown(acc) == [acc EXCEPT !.threw = TRUE]

\* Lines 251-269: Map route_id -> list of nearby stops serving it, as a sequence
\* of [rId, items] in insertion order.
RECURSIVE AddToRoutesMap(_, _, _, _)
AddToRoutesMap(map, item, rIds, i) ==
    IF i > Len(rIds) THEN map
    ELSE LET at == {j \in DOMAIN map : map[j].rId = rIds[i]}
         IN  AddToRoutesMap(
                 IF at = {} THEN Append(map, [rId |-> rIds[i], items |-> <<item>>])
                 ELSE [j \in DOMAIN map |->
                          IF j \in at THEN [map[j] EXCEPT !.items = Append(@, item)]
                          ELSE map[j]],
                 item, rIds, i + 1)

RECURSIVE RoutesMapFrom(_, _, _)
RoutesMapFrom(nearby, i, map) ==
    IF i > Len(nearby) THEN map
    ELSE RoutesMapFrom(nearby, i + 1,
             IF nearby[i].stop.stop_id \in DOMAIN routesByStop
             THEN AddToRoutesMap(map, nearby[i], routesByStop[nearby[i].stop.stop_id], 1)
             ELSE map)

RoutesMap(nearby) == RoutesMapFrom(nearby, 1, <<>>)

MapKeys(map) == [j \in DOMAIN map |-> map[j].rId]
MapGet(map, rId) == map[CHOOSE j \in DOMAIN map : map[j].rId = rId].items

(***************************************************************************)
(* findDirectRoutes, lines 238-339.                                        *)
(***************************************************************************)
\* The stop-time validTrip of lines 301-310: index in pStopTimes, 0 when none.
ValidTripIndex(pStopTimes, routeId, dStopId) ==
    FirstOf({i \in DOMAIN pStopTimes :
        /\ pStopTimes[i].trip_id \in DOMAIN trips
        /\ trips[pStopTimes[i].trip_id].route_id = routeId
        /\ pStopTimes[i].trip_id \in DOMAIN stopTimesByTripId
        /\ \E k \in DOMAIN stopTimesByTripId[pStopTimes[i].trip_id] :
              /\ stopTimesByTripId[pStopTimes[i].trip_id][k].stop_id = dStopId
              /\ stopTimesByTripId[pStopTimes[i].trip_id][k].stop_sequence
                     > pStopTimes[i].stop_sequence})

\* dSt of line 315: tripStops.find(ts => ts.stop_id === dStop.stop_id).
DropStopTime(tripStops, dStopId) ==
    tripStops[FirstOf({k \in DOMAIN tripStops : tripStops[k].stop_id = dStopId})]

\* Line 287.
ValidDirection(pIndex, dIndex) == pIndex # -1 /\ dIndex # -1 /\ pIndex < dIndex

\* uniqueKey of line 319: the template `${routeName}-${pStop.stop_name}-${dStop.stop_name}`.
DirectKey(routeName, pName, dName) == routeName \o "-" \o pName \o "-" \o dName

\* Lines 317-329, once validTrip, its trip's list and dSt are known.
DirectPush(pickup, drop, pStopItem, dStopItem, validTrip, dSt, tripStops, routeName, acc) ==
    IF DirectKey(routeName, pStopItem.stop.stop_name, dStopItem.stop.stop_name)
           \in acc.seen
    THEN acc
    ELSE IF buildRouteResultThrows(validTrip, dSt) THEN Thrown(acc)
    ELSE Pushed(acc,
             buildRouteResult(pickup, drop, pStopItem, dStopItem, validTrip, dSt,
                              tripStops, routeName),
             DirectKey(routeName, pStopItem.stop.stop_name, dStopItem.stop.stop_name),
             {validTrip.trip_id})

\* Lines 312-316, for the index vi of validTrip in pStopTimes.
DirectWithTrip(pickup, drop, routeId, pStopItem, dStopItem, pStopTimes, vi, acc) ==
    IF vi = 0 THEN acc
    ELSE DirectPush(pickup, drop, pStopItem, dStopItem, pStopTimes[vi],
             DropStopTime(stopTimesByTripId[pStopTimes[vi].trip_id],
                          dStopItem.stop.stop_id),
             stopTimesByTripId[pStopTimes[vi].trip_id],
             RouteName(routes[routeId]), acc)

\* The body of the dStopItem loop, lines 284-331, for one (route, pStop, dStop).
DirectCandidate(pickup, drop, routeId, pStopItem, dStopItem, acc) ==
    IF ~ValidDirection(indexOf(stopsByRoute[routeId], pStopItem.stop.stop_id),
                       indexOf(stopsByRoute[routeId], dStopItem.stop.stop_id))
    THEN acc
    ELSE IF routeId \notin DOMAIN routes THEN acc                           \* line 291
    ELSE IF pStopItem.stop.stop_id \notin DOMAIN stopTimesByStopId THEN acc \* line 298
    ELSE DirectWithTrip(pickup, drop, routeId, pStopItem, dStopItem,
             stopTimesByStopId[pStopItem.stop.stop_id],
             ValidTripIndex(stopTimesByStopId[pStopItem.stop.stop_id], routeId,
                            dStopItem.stop.stop_id),
             acc)

\* for (const dStopItem of potentialDStops), line 283.
RECURSIVE DirectDropLoop(_, _, _, _, _, _, _)
DirectDropLoop(pickup, drop, routeId, pStopItem, dItems, j, acc) ==
    IF j > Len(dItems) \/ acc.threw THEN acc
    ELSE DirectDropLoop(pickup, drop, routeId, pStopItem, dItems, j + 1,
             DirectCandidate(pickup, drop, routeId, pStopItem, dItems[j], acc))

\* for (const pStopItem of potentialPStops), lines 282-334: the limit is tested
\* after the whole dStopItem loop of a pickup stop (line 333).
RECURSIVE DirectPickupLoop(_, _, _, _, _, _, _)
RECURSIVE DirectPickupNext(_, _, _, _, _, _, _)
DirectPickupNext(pickup, drop, routeId, pItems, dItems, i, next) ==
    IF Len(next.results) >= MaxResults THEN next
    ELSE DirectPickupLoop(pickup, drop, routeId, pItems, dItems, i + 1, next)

DirectPickupLoop(pickup, drop, routeId, pItems, dItems, i, acc) ==
    IF i > Len(pItems) \/ acc.threw THEN acc
    ELSE DirectPickupNext(pickup, drop, routeId, pItems, dItems, i,
             DirectDropLoop(pickup, drop, routeId, pItems[i], dItems, 1, acc))

\* for (const routeId of commonRouteIds), lines 275-336 (line 335 tests the limit).
RECURSIVE DirectRouteLoop(_, _, _, _, _, _, _)
RECURSIVE DirectRouteNext(_, _, _, _, _, _, _)
DirectRouteNext(pickup, drop, common, pMap, dMap, r, next) ==
    IF Len(next.results) >= MaxResults THEN next
    ELSE DirectRouteLoop(pickup, drop, common, pMap, dMap, r + 1, next)

DirectRouteLoop(pickup, drop, common, pMap, dMap, r, acc) ==
    IF r > Len(common) \/ acc.threw THEN acc
    ELSE IF common[r] \notin DOMAIN stopsByRoute                           \* line 277
    THEN DirectRouteLoop(pickup, drop, common, pMap, dMap, r + 1, acc)
    ELSE DirectRouteNext(pickup, drop, common, pMap, dMap, r,
             DirectPickupLoop(pickup, drop, common[r], MapGet(pMap, common[r]),
                              MapGet(dMap, common[r]), 1, acc))

\* Line 272, for the two maps of lines 248-269.
CommonRouteIds(pRoutesMap, dRoutesMap) ==
    SelectSeq(MapKeys(pRoutesMap), LAMBDA rId : rId \in Range(MapKeys(dRoutesMap)))

DirectSearch(pickup, drop, pRoutesMap, dRoutesMap) ==
    DirectRouteLoop(pickup, drop, CommonRouteIds(pRoutesMap, dRoutesMap),
                    pRoutesMap, dRoutesMap, 1, EmptyAcc)

findDirectRoutes(pickup, drop, pStops, dStops) ==
    DirectSearch(pickup, drop, RoutesMap(pStops), RoutesMap(dStops))

(***************************************************************************)
(* findTripForLeg, lines 483-513: [found, trip_id, start, end, stops].     *)
(***************************************************************************)
\* endSt of line 500 for the start stop-time st: index in its trip's list, or 0.
LegEndIndex(st, endStopId) ==
    IF st.trip_id \notin DOMAIN stopTimesByTripId THEN 0
    ELSE FirstOf({k \in DOMAIN stopTimesByTripId[st.trip_id] :
             /\ stopTimesByTripId[st.trip_id][k].stop_id = endStopId
             /\ stopTimesByTripId[st.trip_id][k].stop_sequence > st.stop_sequence})

\* The object returned at lines 502-507.
LegFound(st, endIndex) ==
    [found |-> TRUE, trip_id |-> st.trip_id, start |-> st,
     end |-> stopTimesByTripId[st.trip_id][endIndex],
     stops |-> stopTimesByTripId[st.trip_id]]

LegFrom(startStopTimes, i, endStopId) ==
    IF i = 0 THEN [found |-> FALSE]
    ELSE LegFound(startStopTimes[i], LegEndIndex(startStopTimes[i], endStopId))

findTripForLeg(routeId, startStopId, endStopId) ==
    IF startStopId \notin DOMAIN stopTimesByStopId THEN [found |-> FALSE]
    ELSE LegFrom(stopTimesByStopId[startStopId],
             FirstOf({j \in DOMAIN stopTimesByStopId[startStopId] :
                 /\ stopTimesByStopId[startStopId][j].trip_id \in DOMAIN trips
                 /\ trips[stopTimesByStopId[startStopId][j].trip_id].route_id = routeId
                 /\ LegEndIndex(stopTimesByStopId[startStopId][j], endStopId) # 0}),
             endStopId)

(***************************************************************************)
(* findTransferRoutes, lines 341-481.                                      *)
(***************************************************************************)
\* A mutant of TimeFeasible: the "Basic Time Check" left out.
TimeFeasibleUnchecked(arr1, dep2) == TRUE

\* Lines 445-452: the candidate is skipped when dep2 < arr1.
TimeFeasible(arr1, dep2) == ~(dep2 < arr1)

\* Lines 355-367: Map route_id -> the first (closest) nearby stop serving it.
FirstItems(full) == [j \in DOMAIN full |-> [rId |-> full[j].rId, item |-> full[j].items[1]]]

FirstStopMap(nearby) == FirstItems(RoutesMap(Take(nearby, TopStops)))

FirstStopOf(map, rId) == map[CHOOSE j \in DOMAIN map : map[j].rId = rId].item

\* Lines 380-389: stopsToDropRoutes.get(sId), the drop routes whose stop list holds
\* sId, once per occurrence, in the order of dRouteIds.
Repeated(x, hits) == [k \in DOMAIN hits |-> x]

ConnectingDropRoutes(dRouteIds, sId) ==
    Concat([j \in DOMAIN dRouteIds |->
        IF dRouteIds[j] \in DOMAIN stopsByRoute
        THEN Repeated(dRouteIds[j],
                      SelectSeq(stopsByRoute[dRouteIds[j]], LAMBDA x : x = sId))
        ELSE <<>>])

\* uniqueKey of line 419: the template `${pRouteId}-${transferStopId}-${dRouteId}`.
TransferKey(pRouteId, transferStopId, dRouteId) ==
    pRouteId \o "-" \o transferStopId \o "-" \o dRouteId

\* Lines 434-470, once the two legs are known; c is the candidate
\* [pRouteId, pStopItem, transferStopId, dRouteId, dStopItem].
TransferWithTrips(pickup, drop, c, trip1Info, trip2Info, acc) ==
    IF ~trip1Info.found THEN acc                                             \* line 427
    ELSE IF ~trip2Info.found THEN acc                                        \* line 434
    ELSE IF \/ TimeThrows(trip1Info.end.arrival_time)                        \* line 436
            \/ TimeThrows(trip2Info.start.departure_time)                    \* line 437
    THEN Thrown(acc)
    ELSE IF ~TimeFeasible(parseTime(trip1Info.end.arrival_time),
                          parseTime(trip2Info.start.departure_time)) THEN acc
    ELSE IF c.pRouteId \notin DOMAIN routes \/ c.dRouteId \notin DOMAIN routes
    THEN Thrown(acc)                          \* line 457: route1.route_short_name
    ELSE IF buildTransferRouteResultThrows(trip1Info.start, trip1Info.end,
                                           trip2Info.start, trip2Info.end)
    THEN Thrown(acc)
    ELSE Pushed(acc,
             buildTransferRouteResult(pickup, drop, c.pStopItem, c.dStopItem,
                 routes[c.pRouteId], routes[c.dRouteId], trip1Info, trip2Info,
                 GetStop(c.transferStopId)),
             TransferKey(c.pRouteId, c.transferStopId, c.dRouteId),
             {trip1Info.trip_id, trip2Info.trip_id})

\* The body of the dRouteId loop, lines 408-472, for one candidate.
TransferCandidate(pickup, drop, c, acc) ==
    IF ~ValidDirection(indexOf(stopsByRoute[c.dRouteId], c.transferStopId),
                       indexOf(stopsByRoute[c.dRouteId], c.dStopItem.stop.stop_id))
    THEN acc                                                                 \* line 415
    ELSE IF TransferKey(c.pRouteId, c.transferStopId, c.dRouteId) \in acc.seen
    THEN acc                                                                 \* line 420
    ELSE IF ~HasStop(c.transferStopId) THEN acc                              \* line 423
    ELSE TransferWithTrips(pickup, drop, c,
             findTripForLeg(c.pRouteId, c.pStopItem.stop.stop_id, c.transferStopId),
             findTripForLeg(c.dRouteId, c.transferStopId, c.dStopItem.stop.stop_id),
             acc)

Candidate(pRouteId, pStopItem, transferStopId, dRouteId, dStopItem) ==
    [pRouteId |-> pRouteId, pStopItem |-> pStopItem, transferStopId |-> transferStopId,
     dRouteId |-> dRouteId, dStopItem |-> dStopItem]

\* for (const dRouteId of connectingDropRoutes), line 407; line 470 returns at 5.
RECURSIVE TransferDropLoop(_, _, _, _, _, _, _, _, _)
TransferDropLoop(pickup, drop, pRouteId, pStopItem, transferStopId, connecting, dMap, j, acc) ==
    IF j > Len(connecting) \/ acc.threw \/ Len(acc.results) >= MaxResults THEN acc
    ELSE TransferDropLoop(pickup, drop, pRouteId, pStopItem, transferStopId,
             connecting, dMap, j + 1,
             TransferCandidate(pickup, drop,
                 Candidate(pRouteId, pStopItem, transferStopId, connecting[j],
                           FirstStopOf(dMap, connecting[j])),
                 acc))

\* for (let i = pStartIndex + 1; i < pRouteStops.length; i++), line 402
\* (i is the 1-based position here).
RECURSIVE TransferStopLoop(_, _, _, _, _, _, _, _)
TransferStopLoop(pickup, drop, pRouteId, pStopItem, pRouteStops, dMap, i, acc) ==
    IF i > Len(pRouteStops) \/ acc.threw \/ Len(acc.results) >= MaxResults THEN acc
    ELSE TransferStopLoop(pickup, drop, pRouteId, pStopItem, pRouteStops, dMap, i + 1,
             TransferDropLoop(pickup, drop, pRouteId, pStopItem, pRouteStops[i],
                 ConnectingDropRoutes(MapKeys(dMap), pRouteStops[i]), dMap, 1, acc))

\* Lines 394-402 for one pickup route: the stops after the pickup stop are tried.
TransferFromRoute(pickup, drop, pRouteId, pStopItem, pStartIndex, dMap, acc) ==
    IF pStartIndex = -1 THEN acc                                             \* line 399
    ELSE TransferStopLoop(pickup, drop, pRouteId, pStopItem, stopsByRoute[pRouteId],
                          dMap, pStartIndex + 2, acc)

\* for (const pRouteId of pRouteIds), lines 393-478.
RECURSIVE TransferRouteLoop(_, _, _, _, _, _)
TransferRouteLoop(pickup, drop, pMap, dMap, r, acc) ==
    IF r > Len(pMap) \/ acc.threw \/ Len(acc.results) >= MaxResults THEN acc
    ELSE IF pMap[r].rId \notin DOMAIN stopsByRoute                           \* line 395
    THEN TransferRouteLoop(pickup, drop, pMap, dMap, r + 1, acc)
    ELSE TransferRouteLoop(pickup, drop, pMap, dMap, r + 1,
             TransferFromRoute(pickup, drop, pMap[r].rId, pMap[r].item,
                 indexOf(stopsByRoute[pMap[r].rId], pMap[r].item.stop.stop_id),
                 dMap, acc))

findTransferRoutes(pickup, drop, pStops, dStops) ==
    TransferRouteLoop(pickup, drop, FirstStopMap(pStops), FirstStopMap(dStops), 1, EmptyAcc)

(***************************************************************************)
(* findRoutes, lines 196-236.                                              *)
(***************************************************************************)
\* logged.direct / logged.transfer: the number in "Found N direct routes." and
\* "Found N transfer routes.", -1 when the line was not printed.
NothingLogged == [direct |-> -1, transfer |-> -1]

\* allRoutes.sort((a, b) => parseInt(a.duration) - parseInt(b.duration)), line 231.
SortByDuration(allRoutes) ==
    Values(StableSort([i \in DOMAIN allRoutes |->
                          [k |-> parseInt(allRoutes[i].duration), v |-> allRoutes[i]]]))

\* A mutant of RankAndTruncate: the slice left out.
RankWithoutTruncate(allRoutes) == SortByDuration(allRoutes)

\* Lines 231-235: allRoutes.sort((a, b) => parseInt(a.duration) -
\* parseInt(b.duration)).slice(0, 5).
RankAndTruncate(allRoutes) ==
    Take(SortByDuration(allRoutes), MaxResults)

\* The outcome of a call: threw (an exception reached the caller), value (the list
\* returned otherwise), logged (the counts printed at lines 218 and 226), extracted
\* (the trips whose lists extractRouteStops was given).
Answer(threw, value, direct, transfer, extracted) ==
    [threw |-> threw, value |-> value,
     logged |-> [direct |-> direct, transfer |-> transfer], extracted |-> extracted]

NoAnswer == Answer(FALSE, <<>>, -1, -1, {})

\* Lines 229-235, after both searches.
AfterTransfer(directRoutes, transferRoutes) ==
    IF transferRoutes.threw
    THEN Answer(TRUE, <<>>, Len(directRoutes.results), -1,
                directRoutes.extracted \cup transferRoutes.extracted)
    ELSE Answer(FALSE, RankAndTruncate(directRoutes.results \o transferRoutes.results),
                Len(directRoutes.results), Len(transferRoutes.results),
                directRoutes.extracted \cup transferRoutes.extracted)

\* A mutant of AfterDirect: the transfer search run whatever the direct search found.
AfterDirectAlwaysTransfer(pickup, drop, nearbyPickupStops, nearbyDropStops, directRoutes) ==
    IF directRoutes.threw THEN Answer(TRUE, <<>>, -1, -1, directRoutes.extracted)
    ELSE AfterTransfer(directRoutes,
             findTransferRoutes(pickup, drop, nearbyPickupStops, nearbyDropStops))

\* Lines 218-235, after the direct search.
AfterDirect(pickup, drop, nearbyPickupStops, nearbyDropStops, directRoutes) ==
    IF directRoutes.threw THEN Answer(TRUE, <<>>, -1, -1, directRoutes.extracted)
    ELSE IF Len(directRoutes.results) < MaxResults                         \* line 223
    THEN AfterTransfer(directRoutes,
             findTransferRoutes(pickup, drop, nearbyPickupStops, nearbyDropStops))
    ELSE Answer(FALSE, RankAndTruncate(directRoutes.results),
                Len(directRoutes.results), -1, directRoutes.extracted)

\* Lines 208-235, after the two nearby-stop searches.
AfterNearby(pickup, drop, nearbyPickupStops, nearbyDropStops) ==
    IF nearbyPickupStops = <<>> \/ nearbyDropStops = <<>> THEN NoAnswer   \* line 210
    ELSE AfterDirect(pickup, drop, nearbyPickupStops, nearbyDropStops,
             findDirectRoutes(pickup, drop, nearbyPickupStops, nearbyDropStops))

findRoutes(pickup, drop) ==
    IF ~isLoaded THEN NoAnswer                                             \* line 197
    ELSE AfterNearby(pickup, drop, findNearbyStopsWithDistance(pickup),
                     findNearbyStopsWithDistance(drop))

(***************************************************************************)
(* The feeds the engine is constructed over.  A generated feed has the     *)
(* four stops A, B, C, D one step (0.01 degree) apart, a first trip T1 on  *)
(* route R1 and, optionally, a second trip T2; the trips' rows may be      *)
(* listed in descending sequence order, and T2's rows before T1's.         *)
(***************************************************************************)
StopRow(id, name, pos) == [stop_id |-> id, stop_name |-> name, pos |-> pos]

StopsRows == << StopRow("A", "Stop A", 0), StopRow("B", "Stop B", 1),
                StopRow("C", "Stop C", 2), StopRow("D", "Stop D", 3) >>

RouteRow(id, short, long) ==
    [route_id |-> id, route_short_name |-> short, route_long_name |-> long]

RouteR1 == RouteRow("R1", "1", "Line One")
RouteR2 == RouteRow("R2", "", "Line Two")

TripRow(id, rId) == [trip_id |-> id, route_id |-> rId, trip_headsign |-> "Terminus"]

\* Seconds between consecutive stops of a generated trip, and the dwell at a stop.
HopSeconds == 5 * 60
DwellSeconds == 60 \div 2
\* T2 starts EarlyStart seconds after T1, plus ShiftSeconds per shift step.
EarlyStart == 8 * 60 + 30
ShiftSeconds == 6 * 60 + 30

\* The stop_times rows of a trip visiting `pattern` from second `base` on; the
\* time columns named in `absent` are not in the file.
TripRows(id, pattern, base, absent, desc) ==
    LET rows == [i \in DOMAIN pattern |->
                    [trip_id |-> id, stop_id |-> pattern[i],
                     stop_sequence |-> NumberToString(i),
                     arrival_time |->
                         IF "arrival_time" \in absent THEN NoTime
                         ELSE HMS(base + (i - 1) * HopSeconds),
                     departure_time |->
                         IF "departure_time" \in absent THEN NoTime
                         ELSE HMS(base + (i - 1) * HopSeconds + DwellSeconds)]]
    IN  IF desc THEN Reverse(rows) ELSE rows

File(status, rows) == [status |-> status, rows |-> rows]

\* T1 of a generated feed leaves A at 23:50:00 and runs past midnight; the
\* fixtures' T1 leaves at 08:00:00.
LateBase == 23 * 3600 + 50 * 60
MorningBase == 8 * 3600

Pattern1 == <<"A", "B", "C">>

\* "X" is a stop_id with no row in stops.csv.
Patterns2 == { <<"C", "D">>, <<"B", "A", "B">>, <<"A", "B", "C">>,
               <<"C", "B", "A">>, <<"A", "X", "C">> }

\* The routes.csv contents tried.
RoutesFiles == { <<>>, <<RouteR1>>, <<RouteR1, RouteR2>> }

FeedOf(base, second, desc, swap, routeRows, absent, status) ==
    LET rows1 == TripRows("T1", Pattern1, base, absent, desc)
        rows2 == IF second.present
                 THEN TripRows("T2", second.pattern,
                               base + EarlyStart + second.shift * ShiftSeconds,
                               absent, desc)
                 ELSE <<>>
    IN  [stops |-> File(status.stops, StopsRows),
         trips |-> File(status.trips,
                        <<TripRow("T1", "R1")>> \o
                        (IF second.present THEN <<TripRow("T2", second.route)>> ELSE <<>>)),
         routes |-> File(status.routes, routeRows),
         stop_times |-> File(status.stop_times,
                             IF swap THEN rows2 \o rows1 ELSE rows1 \o rows2)]

AllOk == [stops |-> "ok", trips |-> "ok", routes |-> "ok", stop_times |-> "ok"]

NoSecond == [present |-> FALSE]

Second(p, r, sh) == [present |-> TRUE, pattern |-> p, route |-> r, shift |-> sh]

Seconds == {NoSecond} \cup
           { Second(p, r, sh) : p \in Patterns2, r \in {"R1", "R2"}, sh \in 0..MaxShift }

\* Feeds whose four files all parse.
GoodFeeds ==
    { FeedOf(LateBase, second, desc, swap, rr, {}, AllOk) :
          second \in Seconds, desc \in BOOLEAN, swap \in BOOLEAN, rr \in RoutesFiles }

\* Fixtures F1 and F2 of the spec's scenarios: stops A, B, C and T1 over them from
\* 08:00:00; F2 adds stop D and T2 on R2 over C (08:15:00) and D.
FixtureF1 ==
    [FeedOf(MorningBase, NoSecond, FALSE, FALSE, <<RouteR1>>, {}, AllOk)
        EXCEPT !.stops.rows = SubSeq(StopsRows, 1, 3)]
FixtureF2 == FeedOf(MorningBase, Second(<<"C", "D">>, "R2", 1), FALSE, FALSE,
                    <<RouteR1, RouteR2>>, {}, AllOk)

FixtureSeconds == {NoSecond, Second(<<"C", "D">>, "R2", 1)}

\* The fixtures with one file missing or unreadable.
FileNames == {"stops", "trips", "routes", "stop_times"}

BrokenFeeds ==
    { FeedOf(MorningBase, second, FALSE, FALSE, <<RouteR1, RouteR2>>, {},
             [AllOk EXCEPT ![f] = st]) :
          second \in FixtureSeconds, f \in FileNames, st \in {"missing", "corrupt"} }

\* The fixtures with one time column absent from stop_times.csv.
HeaderlessFeeds ==
    { FeedOf(MorningBase, second, FALSE, FALSE, <<RouteR1, RouteR2>>, {col}, AllOk) :
          second \in FixtureSeconds, col \in {"arrival_time", "departure_time"} }

\* Fixture F3: F2 plus the trip T2' on R2 over C (08:08:30 / 08:09:00) and D.  The
\* rows of T2' come before those of T2 in trips.csv when tripsFirst, and in
\* stop_times.csv when timesFirst.
FixtureF3(tripsFirst, timesFirst) ==
    LET rows1 == TripRows("T1", Pattern1, MorningBase, {}, FALSE)
        rows2 == TripRows("T2", <<"C", "D">>, MorningBase + EarlyStart + ShiftSeconds,
                          {}, FALSE)
        rows3 == TripRows("T2'", <<"C", "D">>, MorningBase + EarlyStart, {}, FALSE)
        t2 == TripRow("T2", "R2")
        t3 == TripRow("T2'", "R2")
    IN  [stops |-> File("ok", StopsRows),
         trips |-> File("ok", <<TripRow("T1", "R1")>> \o
                              (IF tripsFirst THEN <<t3, t2>> ELSE <<t2, t3>>)),
         routes |-> File("ok", <<RouteR1, RouteR2>>),
         stop_times |-> File("ok", rows1 \o (IF timesFirst THEN rows3 \o rows2
                                                           ELSE rows2 \o rows3))]

F3Feeds == { FixtureF3(tripsFirst, timesFirst) :
                 tripsFirst \in BOOLEAN, timesFirst \in BOOLEAN }

\* Feeds whose stops.csv lists the stops in the order D, C, B, A.
ReversedStopsFeeds ==
    { [f EXCEPT !.stops.rows = Reverse(@)] : f \in {FixtureF2, FixtureF3(FALSE, FALSE)} }

\* F1 with the stop_sequence column written "+1", "+2", "0x10".
SignedSequenceFeed ==
    [FixtureF1 EXCEPT !.stop_times.rows =
        [i \in DOMAIN @ |->
            [@[i] EXCEPT !.stop_sequence =
                IF i = 3 THEN <<"0", "x", "1", "0">> ELSE <<"+">> \o NumberToString(i)]]]

\* A feed whose stop names hold "-": T1 of route 1 runs over all four stops.
HyphenNamesFeed ==
    [stops |-> File("ok", << StopRow("A", "X-Y", 0), StopRow("B", "X", 1),
                             StopRow("C", "Z", 2), StopRow("D", "Y-Z", 3) >>),
     trips |-> File("ok", <<TripRow("T1", "R1")>>),
     routes |-> File("ok", <<RouteR1>>),
     stop_times |-> File("ok", TripRows("T1", <<"A", "B", "C", "D">>, MorningBase,
                                        {}, FALSE))]

\* A feed whose ids hold "-": routes R and R-1 leave P for the stops 1-A and A, and
\* route Q runs on from both to Y.
HyphenIdsFeed ==
    [stops |-> File("ok", << StopRow("P", "Pick", 0), StopRow("1-A", "One A", 1),
                             StopRow("A", "Plain A", 1), StopRow("Y", "Stop Y", 3) >>),
     trips |-> File("ok", <<TripRow("T1", "R"), TripRow("T3", "R-1"), TripRow("U", "Q")>>),
     routes |-> File("ok", << RouteRow("R", "1", ""), RouteRow("R-1", "", "Line One"),
                              RouteRow("Q", "", "Line Two") >>),
     stop_times |-> File("ok",
         TripRows("T1", <<"P", "1-A">>, MorningBase, {}, FALSE) \o
         TripRows("T3", <<"P", "A">>, MorningBase, {}, FALSE) \o
         TripRows("U", <<"1-A", "A", "Y">>, MorningBase + EarlyStart + ShiftSeconds,
                  {}, FALSE))]

Feeds == GoodFeeds \cup {FixtureF1, FixtureF2} \cup BrokenFeeds \cup HeaderlessFeeds
         \cup F3Feeds \cup ReversedStopsFeeds
         \cup {SignedSequenceFeed, HyphenNamesFeed, HyphenIdsFeed}

\* The feeds of the repeated-call specification: a second trip on T1's route that
\* passes B twice, or one on R2 from C to D, with every order of the rows.
RepeatFeeds ==
    { FeedOf(LateBase, second, desc, swap, <<RouteR1, RouteR2>>, {}, AllOk) :
          second \in {Second(<<"B", "A", "B">>, "R1", 1), Second(<<"C", "D">>, "R2", 1)},
          desc \in BOOLEAN, swap \in BOOLEAN }

Positions == 0..MaxPos

(***************************************************************************)
(* The state machine.                                                      *)
(***************************************************************************)
NoCall == <<>>

NoNearby == [pickup |-> <<>>, drop |-> <<>>]

Init ==
    /\ files \in Feeds
    /\ pc = "new"
    /\ stops = <<>>
    /\ trips = EmptyMap
    /\ routes = EmptyMap
    /\ stopTimesByStopId = EmptyMap
    /\ stopTimesByTripId = EmptyMap
    /\ routesByStop = EmptyMap
    /\ stopsByRoute = EmptyMap
    /\ isLoaded = FALSE
    /\ escaped = FALSE
    /\ lastCall = NoCall
    /\ lastOutcome = "none"
    /\ lastResult = <<>>
    /\ logged = NothingLogged
    /\ lastNearby = NoNearby
    /\ firstCall = NoCall
    /\ firstResult = <<>>
    /\ otherCalls = FALSE

\* new BusService(): the field initialisers have run and loadData is entered.
Construct ==
    /\ pc = "new"
    /\ pc' = "loading"
    /\ UNCHANGED <<files, stops, trips, routes, stopTimesByStopId, stopTimesByTripId,
                   routesByStop, stopsByRoute, isLoaded, escaped,
                   lastCall, lastOutcome, lastResult, logged, lastNearby,
                   firstCall, firstResult, otherCalls>>

\* loadData runs to its end (or to its catch block) and the constructor returns.
Loaded(e) ==
    /\ stops' = e.stops
    /\ trips' = e.trips
    /\ routes' = e.routes
    /\ stopTimesByStopId' = e.stopTimesByStopId
    /\ stopTimesByTripId' = e.stopTimesByTripId
    /\ routesByStop' = e.routesByStop
    /\ stopsByRoute' = e.stopsByRoute
    /\ isLoaded' = e.isLoaded
    /\ escaped' = e.escaped

LoadData ==
    /\ pc = "loading"
    /\ Loaded(loadData(files))
    /\ pc' = "constructed"
    /\ UNCHANGED <<files, lastCall, lastOutcome, lastResult, logged, lastNearby,
                   firstCall, firstResult, otherCalls>>

\* nearbyPickupStops and nearbyDropStops of lines 203-204; a call on an engine that
\* is not loaded returns before them.
NearbySearched(pickup, drop) ==
    IF ~isLoaded THEN NoNearby
    ELSE [pickup |-> findNearbyStopsWithDistance(pickup),
          drop |-> findNearbyStopsWithDistance(drop)]

\* busService.findRoutes(pickup, drop) on the constructed object: what the call
\* returns or raises, and what it leaves in the index it hands to extractRouteStops.
Answered(pickup, drop, r) ==
    /\ lastCall' = <<pickup, drop>>
    /\ lastOutcome' = IF r.threw THEN "threw" ELSE "returned"
    /\ lastResult' = r.value
    /\ logged' = r.logged
    /\ lastNearby' = NearbySearched(pickup, drop)
    /\ stopTimesByTripId' =
           [tId \in DOMAIN stopTimesByTripId |->
               IF tId \in r.extracted
               THEN TripListAfterExtract(stopTimesByTripId[tId])
               ELSE stopTimesByTripId[tId]]

Call(pickup, drop) ==
    /\ pc = "constructed"
    /\ Answered(pickup, drop, findRoutes(pickup, drop))
    /\ UNCHANGED <<files, pc, stops, trips, routes, stopTimesByStopId,
                   routesByStop, stopsByRoute, isLoaded, escaped>>

FindRoutes(pickup, drop) ==
    /\ Call(pickup, drop)
    /\ UNCHANGED <<firstCall, firstResult, otherCalls>>

\* The same call, with the first call made and its answer kept for comparison.
FindRoutesObserved(pickup, drop) ==
    /\ Call(pickup, drop)
    /\ IF firstCall = NoCall
       THEN /\ firstCall' = lastCall'
            /\ firstResult' = <<lastOutcome', lastResult'>>
            /\ UNCHANGED otherCalls
       ELSE /\ UNCHANGED <<firstCall, firstResult>>
            /\ otherCalls' = (otherCalls \/ <<pickup, drop>> # firstCall)

Next ==
    \/ Construct
    \/ LoadData
    \/ \E pickup \in Positions, drop \in Positions : FindRoutes(pickup, drop)

Spec == Init /\ [][Next]_vars

\* Repeated calls: every call is compared with the first one made.
InitRepeat == Init /\ files \in RepeatFeeds

NextRepeat ==
    \/ Construct
    \/ LoadData
    \/ \E pickup \in Positions, drop \in Positions : FindRoutesObserved(pickup, drop)

SpecRepeat == InitRepeat /\ [][NextRepeat]_vars

\* The engine-level state of the spec's state machine.
EngineState ==
    IF pc = "new" THEN "Unloaded"
    ELSE IF pc = "loading" THEN "Loading"
    ELSE IF isLoaded THEN "Ready"
    ELSE "Disabled"

(***************************************************************************)
(* Helpers of the properties below.                                        *)
(***************************************************************************)
\* Seconds of an "HH:MM:SS" string, h * 3600 + m * 60 + s, with no 24 h wraparound.
SecondsOf(t) == t[1] * 3600 + t[2] * 60 + t[3]

Returned == lastOutcome = "returned"

Itineraries == {lastResult[i] : i \in DOMAIN lastResult}

IsTransferItinerary(it) == Len(it.legs) = 2

BusSegments(it) == SelectSeq(it.segments, LAMBDA seg : seg.type = "bus")

RECURSIVE SumOfDurations(_)
SumOfDurations(segs) ==
    IF segs = <<>> THEN 0 ELSE parseInt(Head(segs).duration) + SumOfDurations(Tail(segs))

\* Twice the sum over the bus segments of 5 + 1.5 * (stops listed in the segment).
RECURSIVE TwiceLegFares(_)
TwiceLegFares(segs) ==
    IF segs = <<>> THEN 0
    ELSE 2 * 5 + 3 * Len(Head(segs).stops) + TwiceLegFares(Tail(segs))

StopTimesInIndices ==
    UNION {Range(stopTimesByStopId[k]) : k \in DOMAIN stopTimesByStopId}
    \cup UNION {Range(stopTimesByTripId[k]) : k \in DOMAIN stopTimesByTripId}

(***************************************************************************)
(* The claims.                                                             *)
(***************************************************************************)
\* C1: findRoutes never raises to its caller: every call returns a list, also on a
\* feed where a trip's route has no row in routes.csv or a time column is absent.
C1_NeverRaises == lastOutcome # "threw"

\* C2: in every returned itinerary each bus leg boards and alights the same trip,
\* and alights at a stop_sequence strictly greater than the one it boards at.
C2_LegsRunForward ==
    \A it \in Itineraries : \A k \in DOMAIN it.legs :
        /\ it.legs[k].start.trip_id = it.legs[k].end.trip_id
        /\ it.legs[k].end.stop_sequence > it.legs[k].start.stop_sequence

\* C3: in every returned transfer itinerary leg 2 leaves the transfer stop no
\* earlier (in seconds, no 24 h wraparound) than leg 1 reaches it, and the
\* reported transfer wait is not negative.
C3_TransferAfterArrival ==
    \A it \in Itineraries :
        IsTransferItinerary(it) =>
            /\ SecondsOf(it.legs[2].start.departure_time)
                   >= SecondsOf(it.legs[1].end.arrival_time)
            /\ parseInt(it.segments[3].duration) >= 0

\* A transfer between two trips was returned whose second leg leaves after midnight
\* (hour 24 or more) from a stop reached by leg 1.
C3_Witness ==
    \E it \in Itineraries :
        /\ IsTransferItinerary(it)
        /\ it.legs[1].end.trip_id # it.legs[2].start.trip_id
        /\ it.legs[2].start.departure_time[1] >= 24

\* C4: the list findRoutes returns has at most 5 entries and is sorted
\* non-decreasing by the leading integer of the duration strings.
C4_AtMostFiveSorted ==
    Returned =>
        /\ Len(lastResult) <= 5
        /\ \A i \in 1..(Len(lastResult) - 1) :
              parseInt(lastResult[i].duration) <= parseInt(lastResult[i + 1].duration)

\* The two searches produced more than 5 itineraries and 5 were returned, not all
\* of the same duration.
C4_Witness ==
    /\ Returned
    /\ logged.direct + (IF logged.transfer > 0 THEN logged.transfer ELSE 0) > 5
    /\ Len(lastResult) = 5
    /\ lastResult[1].duration # lastResult[5].duration

C5_Transition ==
    EngineState' # EngineState =>
        <<EngineState, EngineState'>> \in
            { <<"Unloaded", "Loading">>, <<"Loading", "Ready">>, <<"Loading", "Disabled">> }

C5_FailedLoadDisabled ==
    (pc = "constructed" /\ \E f \in FileNames : files[f].status # "ok") =>
        EngineState = "Disabled" /\ ~escaped

C5_NotReadyAnswersEmpty ==
    (lastCall # NoCall /\ EngineState # "Ready") =>
        Returned /\ lastResult = <<>> /\ logged = NothingLogged

\* C5: the engine moves Unloaded -> Loading -> Ready or Loading -> Disabled only and
\* never leaves Ready or Disabled; a load with a file missing or unreadable ends
\* Disabled with no exception leaving the constructor; a call on an engine that is
\* not Ready returns the empty list without searching.
C5_EngineLifecycle ==
    /\ [][C5_Transition]_vars
    /\ [](C5_FailedLoadDisabled)
    /\ [](C5_NotReadyAnswersEmpty)

\* A load failed with stops already filled, and a call was answered afterwards.
C5_Witness ==
    /\ EngineState = "Disabled"
    /\ stops # <<>>
    /\ trips # EmptyMap
    /\ lastCall # NoCall

\* C6: with routes.csv missing and the three mandatory files present, the load
\* succeeds and the engine is Ready.
C6_RoutesFileOptional ==
    (/\ pc = "constructed"
     /\ files.routes.status = "missing"
     /\ \A f \in FileNames \ {"routes"} : files[f].status = "ok") => isLoaded

\* C7: after a successful load every indexed stop-time names a stop of stops_by_id
\* and a trip of trips_by_id, and every trip names a route of routes_by_id.
C7_NoDanglingReferences ==
    isLoaded =>
        /\ \A st \in StopTimesInIndices :
              HasStop(st.stop_id) /\ st.trip_id \in DOMAIN trips
        /\ \A t \in DOMAIN trips : trips[t].route_id \in DOMAIN routes

\* C8: a call with the arguments of the first call has the first call's outcome and
\* list, whatever calls came in between, and the indices stay as loadData built them.
C8_RepeatableReadOnly ==
    /\ (firstCall # NoCall /\ lastCall = firstCall) =>
           <<lastOutcome, lastResult>> = firstResult
    /\ pc = "constructed" =>
           /\ stops = loadData(files).stops
           /\ trips = loadData(files).trips
           /\ routes = loadData(files).routes
           /\ stopTimesByStopId = loadData(files).stopTimesByStopId
           /\ stopTimesByTripId = loadData(files).stopTimesByTripId
           /\ routesByStop = loadData(files).routesByStop
           /\ stopsByRoute = loadData(files).stopsByRoute

\* The first call was repeated after a call with other arguments and returned
\* itineraries, on an engine holding a trip whose list is not in sequence order.
C8_Witness ==
    /\ lastCall = firstCall
    /\ otherCalls
    /\ lastResult # <<>>
    /\ \E t \in DOMAIN stopTimesByTripId :
          stopTimesByTripId[t] # SortBySequence(stopTimesByTripId[t])

\* C9: the total duration of every returned itinerary is the sum of the duration
\* minutes of its segments: walk, bus, walk for a direct itinerary and walk, bus,
\* transfer wait, bus, walk for a transfer itinerary.
C9_TotalIsSumOfSegments ==
    \A it \in Itineraries :
        /\ parseInt(it.duration) = SumOfDurations(it.segments)
        /\ [k \in DOMAIN it.segments |-> it.segments[k].type] =
               IF IsTransferItinerary(it)
               THEN <<"walk", "bus", "walk", "bus", "walk">>
               ELSE <<"walk", "bus", "walk">>

\* A transfer itinerary with a wait of at least one minute was returned.
C9_Witness ==
    \E it \in Itineraries :
        IsTransferItinerary(it) /\ parseInt(it.segments[3].duration) > 0

\* C10: fare = ceil(sum over the bus legs of 5 + 1.5 * stops listed in the leg),
\* the ceiling taken once over the sum.
C10_FareIsCeilingOfSum ==
    \A it \in Itineraries :
        LET twice == TwiceLegFares(BusSegments(it))
        IN  2 * it.fare >= twice /\ 2 * (it.fare - 1) < twice

\* A transfer itinerary whose two bus legs both list an odd number of stops (each
\* leg's 5 + 1.5 * stops has a half) was returned.
C10_Witness ==
    \E it \in Itineraries :
        /\ IsTransferItinerary(it)
        /\ \A k \in DOMAIN BusSegments(it) : Len(BusSegments(it)[k].stops) % 2 = 1

\* The wait at a transfer stop: a walk of no distance from a stop to itself.
IsTransferPseudoSegment(seg) ==
    seg.type = "walk" /\ seg.distance = 0 /\ seg.from = seg.to /\ seg.fromPos = seg.toPos

SegmentTypes(it) == [k \in DOMAIN it.segments |-> it.segments[k].type]

WalkCount(it) == Cardinality({k \in DOMAIN it.segments : it.segments[k].type = "walk"})

BusCount(it) == Cardinality({k \in DOMAIN it.segments : it.segments[k].type = "bus"})

\* C11: every returned itinerary has at least 2 walk segments and 1 or 2 bus
\* segments; a direct itinerary is exactly walk, bus, walk; a transfer itinerary is
\* walk, bus, walk, bus, walk where the middle walk, and no other segment, is the
\* zero-distance transfer pseudo-segment.
C11_SegmentStructure ==
    \A it \in Itineraries :
        /\ WalkCount(it) >= 2
        /\ BusCount(it) \in {1, 2}
        /\ ~IsTransferItinerary(it) =>
               /\ SegmentTypes(it) = <<"walk", "bus", "walk">>
               /\ \A k \in DOMAIN it.segments : ~IsTransferPseudoSegment(it.segments[k])
        /\ IsTransferItinerary(it) =>
               /\ SegmentTypes(it) = <<"walk", "bus", "walk", "bus", "walk">>
               /\ {k \in DOMAIN it.segments : IsTransferPseudoSegment(it.segments[k])} = {3}

\* A transfer itinerary whose first walk has no distance (the query point is the
\* boarding stop) was returned together with a direct one.
C11_Witness ==
    /\ \E it \in Itineraries :
           IsTransferItinerary(it) /\ it.segments[1].distance = 0
    /\ \E it \in Itineraries : ~IsTransferItinerary(it)

IsDirectBetween(it, fromName, toName) ==
    ~IsTransferItinerary(it) /\ it.start_stop = fromName /\ it.end_stop = toName

\* The transfer itinerary T1 from A to C, then trip2 from C to D.
IsTransferViaC(it, trip2) ==
    /\ IsTransferItinerary(it)
    /\ it.legs[1].start.trip_id = "T1" /\ it.legs[1].start.stop_id = "A"
    /\ it.legs[1].end.trip_id = "T1" /\ it.legs[1].end.stop_id = "C"
    /\ it.legs[2].start.trip_id = trip2 /\ it.legs[2].start.stop_id = "C"
    /\ it.legs[2].end.trip_id = trip2 /\ it.legs[2].end.stop_id = "D"

\* C12: on fixture F1, findRoutes((0,0), (0,0.02)) returns exactly one itinerary,
\* the direct one on R1 from A to C, with 3 stops and fare 10.
C12_F1OneDirect ==
    (files = FixtureF1 /\ lastCall = <<0, 2>>) =>
        /\ Returned
        /\ Len(lastResult) = 1
        /\ IsDirectBetween(lastResult[1], "Stop A", "Stop C")
        /\ lastResult[1].route_name = <<"1">>
        /\ lastResult[1].stops_count = 3
        /\ lastResult[1].fare = 10

\* C13: on fixture F2, findRoutes((0,0), (0,0.03)) returns exactly one itinerary,
\* the transfer R1 (A to C) + R2 (C to D) with transfer wait 5 min and fare 18.
C13_F2OneTransfer ==
    (files = FixtureF2 /\ lastCall = <<0, 3>>) =>
        /\ Returned
        /\ Len(lastResult) = 1
        /\ IsTransferViaC(lastResult[1], "T2")
        /\ parseInt(lastResult[1].segments[3].duration) = 5
        /\ lastResult[1].fare = 18

\* Minutes of the bus segments of an itinerary, in order.
BusMinutes(it) ==
    [k \in DOMAIN BusSegments(it) |-> parseInt(BusSegments(it)[k].duration)]

\* C14: a bus segment lasts the parsed arrival at the alighting stop minus the parsed
\* departure at the boarding stop, in minutes; with the F1/F2 timetable that is
\* 10 min from A to C, 5 min from A to B and 15 min for A to C then C to D.
C14_BusDuration ==
    /\ \A it \in Itineraries : \A k \in DOMAIN it.legs :
           LET diff == SecondsOf(it.legs[k].end.arrival_time)
                       - SecondsOf(it.legs[k].start.departure_time)
           IN  /\ 60 * BusMinutes(it)[k] > diff - 60
               /\ 60 * BusMinutes(it)[k] < diff + 60
    /\ files \in {FixtureF1, FixtureF2} =>
           \A it \in Itineraries :
               /\ IsDirectBetween(it, "Stop A", "Stop C") => BusMinutes(it) = <<10>>
               /\ IsDirectBetween(it, "Stop A", "Stop B") => BusMinutes(it) = <<5>>
               /\ IsTransferViaC(it, "T2") => BusMinutes(it)[1] + BusMinutes(it)[2] = 15

\* C15: on fixture F3, whatever the order of the rows of T2 and T2' in trips.csv
\* and stop_times.csv, findRoutes((0,0), (0,0.03)) returns the transfer R1 + R2 whose
\* second leg rides T2: the infeasible T2' does not hide the feasible T2.
C15_F3FeasibleTripChosen ==
    (files \in F3Feeds /\ lastCall = <<0, 3>>) =>
        /\ Returned
        /\ \E it \in Itineraries : IsTransferViaC(it, "T2")

\* C16: in every returned transfer itinerary leg 2 rides another trip than leg 1.
C16_TransferChangesTrip ==
    \A it \in Itineraries :
        IsTransferItinerary(it) =>
            it.legs[1].end.trip_id # it.legs[2].start.trip_id

\* The UTF-16 code units of the strings route names are made of, and of the stop ids.
CodesOf(piece) ==
    CASE piece = "1" -> <<49>>
      [] piece = " + " -> <<32, 43, 32>>
      [] piece = "Line One" -> <<76, 105, 110, 101, 32, 79, 110, 101>>
      [] piece = "Line Two" -> <<76, 105, 110, 101, 32, 84, 119, 111>>
      [] piece = "A" -> <<65>>
      [] piece = "B" -> <<66>>
      [] piece = "C" -> <<67>>
      [] piece = "D" -> <<68>>
      [] piece = "P" -> <<80>>
      [] piece = "Y" -> <<89>>
      [] piece = "1-A" -> <<49, 45, 65>>

NameCodes(name) == Concat([k \in DOMAIN name |-> CodesOf(name[k])])

\* a <= b in the lexicographic order of strings.
RECURSIVE LexLeq(_, _)
LexLeq(a, b) ==
    IF a = <<>> THEN TRUE
    ELSE IF b = <<>> THEN FALSE
    ELSE IF a[1] # b[1] THEN a[1] < b[1]
    ELSE LexLeq(Tail(a), Tail(b))

\* C17: in the returned list, of two itineraries with equal total duration minutes
\* the one with fewer stops comes first, and with equal stop counts the one with the
\* lexicographically smaller route name.
C17_TieBreaks ==
    Returned =>
        \A i \in DOMAIN lastResult : \A j \in DOMAIN lastResult :
            (i < j /\ parseInt(lastResult[i].duration) = parseInt(lastResult[j].duration)) =>
                \/ lastResult[i].stops_count < lastResult[j].stops_count
                \/ /\ lastResult[i].stops_count = lastResult[j].stops_count
                   /\ LexLeq(NameCodes(lastResult[i].route_name),
                             NameCodes(lastResult[j].route_name))

\* The stops of `list` are the closest ones to `location` within MaxDistanceM, at
\* most NearbyLimit of them, each paired with its distance.
NearbyClosest(list, location) ==
    LET within == {i \in DOMAIN stops :
                       calculateDistance(location, stops[i].pos) <= MaxDistanceM}
        chosen == {list[k].stop : k \in DOMAIN list}
    IN  /\ Len(list) = IF Cardinality(within) < NearbyLimit THEN Cardinality(within)
                                                              ELSE NearbyLimit
        /\ Cardinality(chosen) = Len(list)
        /\ \A k \in DOMAIN list :
               /\ \E i \in within : stops[i] = list[k].stop
               /\ list[k].distance = calculateDistance(location, list[k].stop.pos)
        /\ \A i \in within : \A k \in DOMAIN list :
               stops[i] \notin chosen =>
                   list[k].distance <= calculateDistance(location, stops[i].pos)

\* `list` is in ascending distance, stops at equal distance in ascending stop_id.
NearbyOrdered(list) ==
    \A i \in DOMAIN list : \A j \in DOMAIN list :
        i < j =>
            \/ list[i].distance < list[j].distance
            \/ /\ list[i].distance = list[j].distance
               /\ LexLeq(CodesOf(list[i].stop.stop_id), CodesOf(list[j].stop.stop_id))

\* C18: the nearby-stop finder returns the NearbyLimit closest stops within
\* MaxDistanceM in ascending distance, stops at equal distance in ascending stop_id,
\* whatever the order of the rows of stops.csv.
C18_NearbyClosestInOrder ==
    (isLoaded /\ lastCall # NoCall) =>
        /\ NearbyClosest(lastNearby.pickup, lastCall[1])
        /\ NearbyClosest(lastNearby.drop, lastCall[2])
        /\ NearbyOrdered(lastNearby.pickup)
        /\ NearbyOrdered(lastNearby.drop)

\* C19: findDirectRoutes returns at most MaxResults itineraries (the number the line
\* "Found N direct routes." prints).
C19_DirectAtMostFive ==
    logged.direct <= MaxResults

\* C20: once the load has succeeded, stopTimesByTripId lists the stop-times of every
\* trip in ascending stop_sequence, whatever the order of the rows of stop_times.csv.
C20_TripListsAscending ==
    isLoaded =>
        \A tId \in DOMAIN stopTimesByTripId :
            \A i \in DOMAIN stopTimesByTripId[tId] : \A j \in DOMAIN stopTimesByTripId[tId] :
                i < j => stopTimesByTripId[tId][i].stop_sequence
                             <= stopTimesByTripId[tId][j].stop_sequence

\* What the transfer search finds for the last call, whether or not the call ran it.
TransfersOfLastCall ==
    findTransferRoutes(lastCall[1], lastCall[2], lastNearby.pickup, lastNearby.drop)

\* C21: findRoutes runs the transfer search only after the direct search and only when
\* that returned fewer than MaxResults itineraries; when it returned MaxResults or
\* more, the transfer search is not run and no transfer itinerary is returned, even
\* when a transfer itinerary of smaller total duration exists.
C21_TransferOnlyWhenFewDirect ==
    /\ logged.transfer # -1 => (logged.direct # -1 /\ logged.direct < MaxResults)
    /\ logged.direct >= MaxResults =>
           /\ logged.transfer = -1
           /\ Returned
           /\ \A it \in Itineraries : ~IsTransferItinerary(it)

\* The direct search returned MaxResults or more, and the transfer search, had it
\* run, would have found an itinerary quicker than one of those returned.
C21_Witness ==
    /\ logged.direct >= MaxResults
    /\ Returned
    /\ Len(lastResult) = MaxResults
    /\ ~TransfersOfLastCall.threw
    /\ \E k \in DOMAIN TransfersOfLastCall.results :
           parseInt(TransfersOfLastCall.results[k].duration)
               < parseInt(lastResult[Len(lastResult)].duration)

=============================================================================
